---------------------------- MODULE Spec2Model ----------------------------
(***************************************************************************)
(* A model of pyvert: the tag inferencer (ValidTags), the segmenter        *)
(* (iterstruct), Structure.xml / _xmlize, and the tree rewrites chunk,     *)
(* group and project.                                                      *)
(*                                                                         *)
(* Text is modelled character by character: a line is a sequence of        *)
(* one-character strings, a text is a sequence of lines (the line          *)
(* separator "\n" is the boundary between two elements).                   *)
(***************************************************************************)
EXTENDS Integers, Sequences, FiniteSets, TLC

VARIABLES
    stags, etags, vtags,   \* ValidTags.stags / .etags / .vtags
    added,                 \* history: the set of lines handed to ValidTags.add
    xml,                   \* Structure.xml: <<>> before the first access, else <<tree>>
    call,                  \* the last method called on the Structure, with its arguments
    ret,                   \* what that call returned or raised
    self,                  \* the Structure whose xml is read: raw, structs, name
    vert,                  \* the text the last run of _xmlize returned
    accesses, runs,        \* history: how often xml was read, how often it was computed
    dump,                  \* the temporary files written, by name (1, 2, ...)
    input,                 \* iterstruct: the lines of vert_file as they were at the call
    vert_file,             \* iterstruct: the lines not read yet
    struct,                \* iterstruct: the argument struct, None or a tag name
    structs,               \* iterstruct: the argument structs, None or a set of names
    buffer,                \* iterstruct: the lines of the block being collected
    yielded,               \* the Structures the generator has yielded so far
    gen,                   \* where the generator is: "start", "loop", "yield", or how it ended
    cmd,                   \* the vrt command running: its options and its local variables
    emitted                 \* the strings the command has yielded so far

tagVars == <<stags, etags, vtags, added>>
structVars == <<xml, call, ret>>
xmlVars == <<self, vert, accesses, runs, dump>>
iterVars == <<input, vert_file, struct, structs, buffer, yielded, gen>>
cmdVars == <<cmd, emitted>>
vars == <<stags, etags, vtags, added, xml, call, ret, self, vert, accesses, runs, dump,
          input, vert_file, struct, structs, buffer, yielded, gen, cmd, emitted>>

\* None is the empty sequence, a value v is <<v>>
None == <<>>
Some(v) == <<v>>

\* the variables of a component that is not running
TagsIdle == stags = {} /\ etags = {} /\ vtags = {} /\ added = {}
NoCall == [op |-> "none"]
StructIdle == xml = <<>> /\ call = NoCall /\ ret = NoCall
NoStructure == [raw |-> <<>>, structs |-> {}, name |-> <<>>, attr |-> <<>>]
XmlIdle == self = NoStructure /\ vert = <<>> /\ accesses = 0 /\ runs = 0 /\ dump = <<>>
CmdIdle == cmd = NoCall /\ emitted = <<>>
IterIdle ==
    /\ input = <<>> /\ vert_file = <<>> /\ struct = <<>> /\ structs = <<>>
    /\ buffer = <<>> /\ yielded = <<>> /\ gen = "none"

(***************************************************************************)
(* Characters and the regular expressions of _pyvert.py                    *)
(***************************************************************************)

\* the characters \w matches, among those the model's lines are made of
WordChars == {"a", "b", "x", "l", "t", "g", "m", "p", "r", "o", "k", "j", "u", "v"}

\* characters str.strip() removes, among those the model's lines are made of
SpaceChars == {" ", "\t"}

IsWord(c) == c \in WordChars

\* the length of the longest run of \w characters of line starting at position i
RECURSIVE WordRun(_, _)
WordRun(line, i) ==
    IF i <= Len(line) /\ IsWord(line[i]) THEN 1 + WordRun(line, i + 1) ELSE 0

\* group(1) of a match of <(\w+)... or </(\w+)...: the greedy \w+ from position i
NameAt(line, i) == SubSeq(line, i, i + WordRun(line, i) - 1)

\* ValidTags.start: re.compile(r"<(\w+).*?(?<!/)>").fullmatch(line)
StartMatch(line) ==
    /\ Len(line) >= 3
    /\ line[1] = "<"
    /\ IsWord(line[2])
    /\ line[Len(line)] = ">"
    /\ line[Len(line) - 1] # "/"

\* ValidTags.end: re.compile(r"</(\w+)>").fullmatch(line)
EndMatch(line) ==
    /\ Len(line) >= 4
    /\ line[1] = "<"
    /\ line[2] = "/"
    /\ line[Len(line)] = ">"
    /\ WordRun(line, 3) = Len(line) - 3

\* ValidTags.void: re.compile(r"<(\w+).*?/>").fullmatch(line)
VoidMatch(line) ==
    /\ Len(line) >= 4
    /\ line[1] = "<"
    /\ IsWord(line[2])
    /\ line[Len(line)] = ">"
    /\ line[Len(line) - 1] = "/"

(***************************************************************************)
(* The lines the inputs are drawn from                                     *)
(***************************************************************************)
OpenA    == <<"<", "a", ">">>
CloseA   == <<"<", "/", "a", ">">>
VoidA    == <<"<", "a", "/", ">">>
OpenAB   == <<"<", "a", "b", ">">>
CloseAB  == <<"<", "/", "a", "b", ">">>
OpenB    == <<"<", "b", ">">>
CloseB   == <<"<", "/", "b", ">">>
VoidB    == <<"<", "b", "/", ">">>
OpenAttr == <<"<", "a", " ", "x", ">">>
Token    == <<"x">>
TabTok   == <<"<", "a", "\t", "x", ">">>
Blank    == <<>>

TagLines == {OpenA, CloseA, VoidA, OpenAB, CloseAB, OpenB, CloseB, VoidB,
             OpenAttr, Token, TabTok}

(***************************************************************************)
(* Text helpers: html.unescape, the three escaping passes and the          *)
(* tag-restoring substitution of Structure._xmlize                         *)
(***************************************************************************)

\* line starts at position i with the characters of pre
StartsWith(line, pre, i) ==
    /\ i >= 1
    /\ Len(line) >= i + Len(pre) - 1
    /\ SubSeq(line, i, i + Len(pre) - 1) = pre

\* line ends with the characters of suf
EndsWith(line, suf) ==
    /\ Len(line) >= Len(suf)
    /\ SubSeq(line, Len(line) - Len(suf) + 1, Len(line)) = suf

\* str.strip() of one line
RECURSIVE LStrip(_)
LStrip(line) ==
    IF line # <<>> /\ Head(line) \in SpaceChars THEN LStrip(Tail(line)) ELSE line

RECURSIVE RStrip(_)
RStrip(line) ==
    IF line # <<>> /\ line[Len(line)] \in SpaceChars
    THEN RStrip(SubSeq(line, 1, Len(line) - 1)) ELSE line

StripLine(line) == RStrip(LStrip(line))

\* html.unescape: the characters that end a named reference,
\* [^\t\n\f <&#;] in html's charref pattern
RefStop == {"\t", "\n", "\f", " ", "<", "&", "#", ";"}

\* html.entities.html5 restricted to the names the model's lines can spell
Html5Names == {<<"a", "m", "p", ";">>, <<"a", "m", "p">>,
               <<"l", "t", ";">>, <<"l", "t">>,
               <<"g", "t", ";">>, <<"g", "t">>}

Html5(s) == IF s[1] = "a" THEN "&" ELSE IF s[1] = "l" THEN "<" ELSE ">"

\* the greedy run [^\t\n\f <&#;]{1,32} starting at position i
RECURSIVE RefRun(_, _, _)
RefRun(line, i, n) ==
    IF n < 32 /\ i <= Len(line) /\ line[i] \notin RefStop
    THEN RefRun(line, i + 1, n + 1) ELSE n

\* html.unescape's replace_charref for a named reference s (s excludes the "&"):
\* the whole name, else the longest prefix of at least two characters
RECURSIVE LongestPrefix(_, _)
LongestPrefix(s, x) ==
    IF x <= 1 THEN <<"&">> \o s
    ELSE IF SubSeq(s, 1, x) \in Html5Names
         THEN <<Html5(SubSeq(s, 1, x))>> \o SubSeq(s, x + 1, Len(s))
         ELSE LongestPrefix(s, x - 1)

ReplaceCharref(s) ==
    IF s \in Html5Names THEN <<Html5(s)>> ELSE LongestPrefix(s, Len(s) - 1)

\* html.unescape of one line, scanning from position i
RECURSIVE UnescapeFrom(_, _)
UnescapeFrom(line, i) ==
    IF i > Len(line) THEN <<>>
    ELSE IF line[i] = "&" /\ RefRun(line, i + 1, 0) >= 1
         THEN LET run == RefRun(line, i + 1, 0)
                  semi == IF i + run + 1 <= Len(line) /\ line[i + run + 1] = ";"
                          THEN 1 ELSE 0
                  s == SubSeq(line, i + 1, i + run + semi)
              IN  ReplaceCharref(s) \o UnescapeFrom(line, i + 1 + Len(s))
         ELSE <<line[i]>> \o UnescapeFrom(line, i + 1)

UnescapeLine(line) == UnescapeFrom(line, 1)

\* re.sub(c, repl, line) for a one-character pattern c
RECURSIVE SubChar(_, _, _)
SubChar(line, c, repl) ==
    IF line = <<>> THEN <<>>
    ELSE (IF Head(line) = c THEN repl ELSE <<Head(line)>>) \o SubChar(Tail(line), c, repl)

AmpAmp == <<"&", "a", "m", "p", ";">>
AmpLt  == <<"&", "l", "t", ";">>
AmpGt  == <<"&", "g", "t", ";">>

\* _xmlize lines 205-209 on one line: unescape, then escape &, <, > in that order
EscapeLine(line) ==
    SubChar(SubChar(SubChar(UnescapeLine(line), "&", AmpAmp), "<", AmpLt), ">", AmpGt)

\* applies f-like per-line passes to a text
EscapeText(text) == [i \in 1..Len(text) |-> EscapeLine(text[i])]

\* the alternation ({}) built by "|".join(self.structs) matches at position p:
\* some member is a prefix of what follows; an empty set gives the empty
\* group (), which matches anywhere
NameHere(line, names, p) ==
    \/ names = {}
    \/ \E n \in names : StartsWith(line, n, p)

\* ^&lt;(/?({}) matches at the start of line: &lt;, an optional /, a name
HeadMatch(line, names) ==
    /\ StartsWith(line, AmpLt, 1)
    /\ \/ NameHere(line, names, 5)
       \/ Len(line) >= 5 /\ line[5] = "/" /\ NameHere(line, names, 6)

\* &gt;$ can close a match that started on line i at line j
TailMatch(text, i, j) ==
    /\ EndsWith(text[j], AmpGt)
    /\ j = i => Len(text[j]) >= 8

\* the lazy [^\t]*? stops at the first line at or after i that ends in &gt;
\* (0: there is none); [^\t] also matches the newline between two lines
RECURSIVE FirstEnd(_, _, _)
FirstEnd(text, i, j) ==
    IF j > Len(text) THEN 0
    ELSE IF TailMatch(text, i, j) THEN j
    ELSE FirstEnd(text, i, j + 1)

NoTab(text, i, j) == \A k \in i..j : \A q \in 1..Len(text[k]) : text[k][q] # "\t"

\* the replacement <\1> of a match spanning lines i..j
RestoreSpan(text, i, j) ==
    [k \in 1..(j - i + 1) |->
        LET l == text[i + k - 1]
            a == IF k = 1 THEN <<"<">> \o SubSeq(l, 5, Len(l)) ELSE l
        IN  IF i + k - 1 = j THEN SubSeq(a, 1, Len(a) - 4) \o <<">">> ELSE a]

\* re.sub(match, r"<\1>", vert, flags=re.M) from line i on
RECURSIVE Restore(_, _, _)
Restore(text, names, i) ==
    IF i > Len(text) THEN <<>>
    ELSE LET j == FirstEnd(text, i, i)
         IN  IF HeadMatch(text[i], names) /\ j # 0 /\ NoTab(text, i, j)
             THEN RestoreSpan(text, i, j) \o Restore(text, names, j + 1)
             ELSE <<text[i]>> \o Restore(text, names, i + 1)

\* Structure._xmlize on the text self.raw with the valid-tag set self.structs
Xmlize(self_raw, self_structs) == Restore(EscapeText(self_raw), self_structs, 1)

(***************************************************************************)
(* Element trees (lxml.etree).  A tree is an arena: node k has tag[k],     *)
(* attrib[k] (a function from keys to values), the ordered child list      *)
(* kids[k], and the text pieces text[k] (before its first child) and       *)
(* tail[k] (after its end tag).  A text piece is the sequence of its       *)
(* lines: it stands for "\n" followed by every line and a "\n".            *)
(***************************************************************************)

EmptyTree == [tag |-> <<>>, attrib |-> <<>>, kids |-> <<>>, text |-> <<>>, tail |-> <<>>]

\* etree.Element / etree.SubElement: a new node under parent p (0: a new root)
AddNode(t, p, tg, at) ==
    LET k == Len(t.tag) + 1
    IN  [tag    |-> Append(t.tag, tg),
         attrib |-> Append(t.attrib, at),
         kids   |-> IF p = 0 THEN Append(t.kids, <<>>)
                    ELSE [Append(t.kids, <<>>) EXCEPT ![p] = Append(@, k)],
         text   |-> Append(t.text, <<>>),
         tail   |-> Append(t.tail, <<>>)]

\* the parent of node c, 0 when it has none
ParentOf(t, c) ==
    IF \E q \in 1..Len(t.kids) : \E i \in 1..Len(t.kids[q]) : t.kids[q][i] = c
    THEN CHOOSE q \in 1..Len(t.kids) : \E i \in 1..Len(t.kids[q]) : t.kids[q][i] = c
    ELSE 0

RECURSIVE Flatten(_)
Flatten(ss) == IF ss = <<>> THEN <<>> ELSE Head(ss) \o Flatten(Tail(ss))

\* the nodes of the subtree of r in document order
RECURSIVE Preorder(_, _)
Preorder(t, r) ==
    <<r>> \o Flatten([i \in 1..Len(t.kids[r]) |-> Preorder(t, t.kids[r][i])])

\* element.iter(tg) on a tree that is not modified meanwhile: r and its
\* descendants with that tag, in document order
IterTag(t, r, tg) == SelectSeq(Preorder(t, r), LAMBDA k : t.tag[k] = tg)

\* element.xpath("string()"): the lines of all text dominated by node c
RECURSIVE StringLines(_, _)
StringLines(t, c) ==
    t.text[c] \o Flatten([i \in 1..Len(t.kids[c]) |->
                            StringLines(t, t.kids[c][i]) \o t.tail[t.kids[c][i]]])

(***************************************************************************)
(* class ValidTags                                                         *)
(***************************************************************************)

\* ValidTags.__init__
TagsInit ==
    /\ stags = {}
    /\ etags = {}
    /\ vtags = {}

\* ValidTags.add(line): the sets after the call, as a record
AddSets(s, e, v, line) ==
    IF StartMatch(line) THEN [s |-> s \cup {NameAt(line, 2)}, e |-> e, v |-> v]
    ELSE IF EndMatch(line) THEN [s |-> s, e |-> e \cup {NameAt(line, 3)}, v |-> v]
    ELSE IF VoidMatch(line) THEN [s |-> s, e |-> e, v |-> v \cup {NameAt(line, 2)}]
    ELSE [s |-> s, e |-> e, v |-> v]

\* a slip in resolve(): every name seen is trusted
ResolveSetsUnion(s, e, v) == (s \cup e) \cup v

\* ValidTags.resolve()
ResolveSets(s, e, v) == (s \cap e) \cup v

resolve == ResolveSets(stags, etags, vtags)

\* one call of ValidTags.add(line)
add(line) ==
    /\ stags' = AddSets(stags, etags, vtags, line).s
    /\ etags' = AddSets(stags, etags, vtags, line).e
    /\ vtags' = AddSets(stags, etags, vtags, line).v
    /\ added' = added \cup {line}

TagsAdd == \E line \in TagLines : add(line)

InitTags == TagsInit /\ added = {} /\ StructIdle /\ IterIdle /\ XmlIdle /\ CmdIdle

NextTags == TagsAdd /\ UNCHANGED <<structVars, iterVars, xmlVars, cmdVars>>

SpecTags == InitTags /\ [][NextTags]_vars

(***************************************************************************)
(* class Structure (constructor) and iterstruct                            *)
(***************************************************************************)

\* str.strip() of a text: blank lines at both ends go, then the white space
\* before the first and after the last line
RECURSIVE DropBlankHead(_)
DropBlankHead(text) ==
    IF text # <<>> /\ StripLine(Head(text)) = <<>> THEN DropBlankHead(Tail(text)) ELSE text

RECURSIVE DropBlankTail(_)
DropBlankTail(text) ==
    IF text # <<>> /\ StripLine(text[Len(text)]) = <<>>
    THEN DropBlankTail(SubSeq(text, 1, Len(text) - 1)) ELSE text

StripText(text) ==
    LET core == DropBlankTail(DropBlankHead(text))
    IN  IF core = <<>> THEN <<>>
        ELSE [[core EXCEPT ![1] = LStrip(@)] EXCEPT ![Len(core)] = RStrip(@)]

\* re.search(r"\w+", first_line).group(): the first run of \w characters
RECURSIVE FirstWord(_, _)
FirstWord(line, i) ==
    IF i > Len(line) THEN <<>>
    ELSE IF IsWord(line[i]) THEN NameAt(line, i)
    ELSE FirstWord(line, i + 1)

\* the position of the first double quote of line at or after i (0: none)
RECURSIVE QuoteAt(_, _)
QuoteAt(line, i) ==
    IF i > Len(line) THEN 0
    ELSE IF line[i] = "\"" THEN i
    ELSE QuoteAt(line, i + 1)

\* re.findall(r'(\w+)="(.*?)"', first_line) from position i on: the pairs
\* <<key, value>> of the matches, left to right, none overlapping another
RECURSIVE FindAll(_, _)
FindAll(line, i) ==
    IF i > Len(line) THEN <<>>
    ELSE LET q == i + WordRun(line, i)
             c == QuoteAt(line, q + 2)
         IN  IF /\ q > i
                /\ q + 1 <= Len(line)
                /\ line[q] = "="
                /\ line[q + 1] = "\""
                /\ c # 0
             THEN <<<<SubSeq(line, i, q - 1), SubSeq(line, q + 2, c - 1)>>>>
                     \o FindAll(line, c + 1)
             ELSE FindAll(line, i + 1)

\* dict(pairs): the value of a key is that of its last pair
RECURSIVE LastValue(_, _)
LastValue(pairs, key) ==
    IF pairs[Len(pairs)][1] = key THEN pairs[Len(pairs)][2]
    ELSE LastValue(SubSeq(pairs, 1, Len(pairs) - 1), key)

Dict(pairs) ==
    [key \in {pairs[i][1] : i \in 1..Len(pairs)} |-> LastValue(pairs, key)]

\* Structure(raw_vert, structs); raw holds the lines of self.raw, whose final
\* "\n" is implied
Structure(raw_vert, valid) ==
    [raw     |-> StripText(raw_vert),
     structs |-> valid,
     name    |-> FirstWord(StripText(raw_vert)[1], 1),
     attr    |-> Dict(FindAll(StripText(raw_vert)[1], 1))]

RootName  == <<"r", "o", "o", "t">>
OpenRoot  == <<"<", "r", "o", "o", "t", ">">>
CloseRoot == <<"<", "/", "r", "o", "o", "t", ">">>

\* "<root>\n" + vert_file.read().strip() + "\n</root>"
WrapRead(lines) ==
    <<OpenRoot>> \o (IF StripText(lines) = <<>> THEN <<Blank>> ELSE StripText(lines))
                 \o <<CloseRoot>>

\* start = re.compile(r"<{}.*?>".format(struct)); start.fullmatch(line)
StartOf(tg, line) ==
    /\ Len(line) >= Len(tg) + 2
    /\ StartsWith(line, <<"<">> \o tg, 1)
    /\ line[Len(line)] = ">"

\* end = re.compile(r"</{}>".format(struct)); end.fullmatch(line)
EndOf(tg, line) == line = <<"<", "/">> \o tg \o <<">">>

\* the truth value of the argument structs: None and the empty set are false
Truthy(opt) == opt # None /\ opt[1] # {}

\* structs.resolve() of the object iterstruct made: DummyValidTags returns
\* the set it was given, ValidTags what it inferred
ResolveOf(opt, s, e, v) == IF Truthy(opt) THEN opt[1] ELSE ResolveSets(s, e, v)

\* the first next() on the generator: the code before the loop.  With no
\* struct and a set of structs it yields the whole input at once
IterStart ==
    /\ gen = "start"
    /\ IF struct = None /\ Truthy(structs)
       THEN /\ structs' = Some(structs[1] \cup {RootName})
            /\ yielded' = Append(yielded,
                                 Structure(WrapRead(vert_file), structs[1] \cup {RootName}))
            /\ vert_file' = <<>>
            /\ struct' = struct
            /\ gen' = "yield"
       ELSE IF struct = None
       THEN /\ struct' = Some(RootName)
            /\ vert_file' = <<OpenRoot>> \o vert_file \o <<CloseRoot>>
            /\ gen' = "loop"
            /\ UNCHANGED <<structs, yielded>>
       ELSE /\ gen' = "loop"
            /\ UNCHANGED <<struct, structs, vert_file, yielded>>
    /\ UNCHANGED <<buffer, input, tagVars, structVars, xmlVars, cmdVars>>

\* the generator is resumed after the yield of the whole input and runs
\* "raise StopIteration": the generator just ends on Python up to 3.6, the
\* consumer gets a RuntimeError from Python 3.7 on (PEP 479)
IterRaise ==
    /\ gen = "yield"
    /\ gen' \in {"exhausted", "RuntimeError"}
    /\ UNCHANGED <<input, vert_file, struct, structs, buffer, yielded, tagVars, structVars, xmlVars, cmdVars>>

\* one pass of the for loop: the next line of vert_file
IterLine ==
    /\ gen = "loop"
    /\ vert_file # <<>>
    /\ LET line == StripLine(Head(vert_file))
           sets == IF Truthy(structs)
                   THEN [s |-> stags, e |-> etags, v |-> vtags]
                   ELSE AddSets(stags, etags, vtags, line)
       IN  /\ vert_file' = Tail(vert_file)
           /\ IF buffer # <<>> \/ StartOf(struct[1], line)
              THEN /\ stags' = sets.s
                   /\ etags' = sets.e
                   /\ vtags' = sets.v
                   /\ added' = IF Truthy(structs) THEN added ELSE added \cup {line}
                   /\ IF EndOf(struct[1], line)
                      THEN /\ yielded' = Append(yielded,
                                  Structure(Append(buffer, line),
                                            ResolveOf(structs, sets.s, sets.e, sets.v)))
                           /\ buffer' = <<>>
                      ELSE /\ buffer' = Append(buffer, line)
                           /\ yielded' = yielded
              ELSE UNCHANGED <<tagVars, buffer, yielded>>
    /\ UNCHANGED <<input, struct, structs, gen, structVars, xmlVars, cmdVars>>

\* vert_file is at its end: the loop and the generator end
IterEnd ==
    /\ gen = "loop"
    /\ vert_file = <<>>
    /\ gen' = "exhausted"
    /\ UNCHANGED <<input, vert_file, struct, structs, buffer, yielded, tagVars, structVars, xmlVars, cmdVars>>

\* bound of the input
MaxInput == 4

SpOpenA == <<" ", "<", "a", ">">>

IterLines == {OpenA, CloseA, OpenAB, VoidB, Token, SpOpenA}

InitIter ==
    /\ TagsInit
    /\ added = {}
    /\ StructIdle
    /\ XmlIdle
    /\ CmdIdle
    /\ input \in UNION {[1..n -> IterLines] : n \in 0..MaxInput}
    /\ vert_file = input
    /\ struct \in {None, Some(<<"a">>)}
    /\ structs \in {None, Some({<<"b">>})}
    /\ buffer = <<>>
    /\ yielded = <<>>
    /\ gen = "start"

NextIter == IterStart \/ IterRaise \/ IterLine \/ IterEnd

SpecIter == InitIter /\ [][NextIter]_vars

(***************************************************************************)
(* Attribute maps, None and the trees the rewrites are run on              *)
(***************************************************************************)

\* str(v) of None or a string
StrOf(v) == IF v = None THEN "None" ELSE v[1]

NoAttrib == [k \in {} |-> ""]

\* element.set(key, value) / attrib[key] = value
SetAttr(a, key, value) == [k \in DOMAIN a \cup {key} |-> IF k = key THEN value ELSE a[k]]

\* element.get(key, default)
GetAttr(a, key, default) == IF key \in DOMAIN a THEN Some(a[key]) ELSE default

\* dict.update: the entries of b win
UpdateAttr(a, b) == [k \in DOMAIN a \cup DOMAIN b |-> IF k \in DOMAIN b THEN b[k] ELSE a[k]]

\* bounds of the trees
MaxItems == 5
MaxLen == 2

\* the shapes of the parts of a document under its root:
\*   "s0"  <s></s>            a child without text lines
\*   "sb"  <s>w, blank, w</s> a child with two lines around a blank line
\*   "ps"  <p><s>w</s></p>    a child with one line, one level down
ItemKinds == {"s0", "sb", "ps"}

Word(k) == "w" \o ToString(k)

\* the tree after parsing one more part under the root (node 1)
AddItem(t, kind) ==
    LET k == Len(t.tag) + 1
    IN  IF kind = "s0" THEN AddNode(t, 1, "s", NoAttrib)
        ELSE IF kind = "sb"
             THEN [AddNode(t, 1, "s", NoAttrib) EXCEPT !.text[k] = <<Word(k), "", Word(k)>>]
        ELSE [AddNode(AddNode(t, 1, "p", NoAttrib), k, "s", NoAttrib)
                 EXCEPT !.text[k + 1] = <<Word(k + 1)>>]

RECURSIVE AddItems(_, _)
AddItems(t, items) ==
    IF items = <<>> THEN t ELSE AddItems(AddItem(t, Head(items)), Tail(items))

\* a <doc> with the given attributes and parts
DocTree(at, items) == AddItems(AddNode(EmptyTree, 0, "doc", at), items)

ItemSeqs == UNION {[1..n -> ItemKinds] : n \in 0..MaxItems}

RootAttribs == {NoAttrib, [k \in {"id"} |-> "d"]}

(***************************************************************************)
(* Structure.chunk                                                         *)
(***************************************************************************)

\* round(num / den) on floats: to the nearest integer, a tie to the even one
Round(num, den) ==
    LET q == num \div den
        r == num % den
    IN  IF 2 * r < den THEN q
        ELSE IF 2 * r > den THEN q + 1
        ELSE IF q % 2 = 0 THEN q ELSE q + 1

\* chunk_pos(idx, total)
chunk_pos(idx, total) ==
    IF total <= 2
    THEN (IF idx = 0 THEN "beginning" ELSE "end")
    ELSE IF idx < Round(total, 3) THEN "beginning"
         ELSE IF idx < Round(2 * total, 3) THEN "middle"
         ELSE "end"

\* text.strip("\n"), re.sub(r"\n{2,}", "\n", text), text.splitlines():
\* the lines that are left are the non-empty ones
TextLines(lines) == SelectSeq(lines, LAMBDA l : l # "")

\* new_child as made in the loop body from child c: src remembers the node copied
NewChild(t, c) ==
    [src    |-> c,
     tag    |-> t.tag[c],
     attrib |-> t.attrib[c],
     text   |-> IF TextLines(StringLines(t, c)) = <<>> THEN <<"">>
                ELSE TextLines(StringLines(t, c)),
     tail   |-> t.tail[c],
     kids   |-> <<>>]

\* loop_vars: a new chunk; length is the value random.randint(*minmax) returned
LoopVars(at, length) == [attrib |-> at, chunk_length |-> length, kids |-> <<>>]

\* a slip in the for-else: the chunk in progress is always appended
KeepLastAlways(chunk, positions) == TRUE

\* the test after the for loop that decides whether the last chunk is kept
KeepLast(chunk, positions) == positions > 0

\* the for loop of chunk over the children still to visit; the result is the
\* set of the chunk lists root can end with, one per sequence of random draws
RECURSIVE ChunkLoop(_, _, _, _, _, _, _)
ChunkLoop(t, todo, at, minmax, chunk, positions, rootKids) ==
    IF todo = <<>>
    THEN {IF KeepLast(chunk, positions) THEN Append(rootKids, chunk) ELSE rootKids}
    ELSE LET c == Head(todo)
             pos == positions + Len(TextLines(StringLines(t, c)))
             filled == [chunk EXCEPT !.kids = Append(@, NewChild(t, c))]
         IN  IF pos >= chunk.chunk_length
             THEN UNION {ChunkLoop(t, Tail(todo), at, minmax, LoopVars(at, length), 0,
                                   Append(rootKids, filled))
                            : length \in minmax[1]..minmax[2]}
             ELSE ChunkLoop(t, Tail(todo), at, minmax, filled, pos, rootKids)

\* a slip in the annotation loop: a missing id is formatted instead of refused
AnnotateUnchecked(rootTag, chunks, fallback_orig_id) ==
    Some([i \in 1..Len(chunks) |->
            LET orig_id == StrOf(GetAttr(chunks[i].attrib, "id", fallback_orig_id))
            IN  [chunks[i] EXCEPT !.attrib =
                    SetAttr(SetAttr(SetAttr(@, rootTag \o "_id", orig_id),
                                    "id", orig_id \o "_" \o ToString(i - 1)),
                            "position_in_text", "end")]])

\* the annotation loop: None when a chunk has no id and there is no fallback
\* (RuntimeWarning), else the annotated chunks
Annotate(rootTag, chunks, fallback_orig_id) ==
    IF \E i \in 1..Len(chunks) : GetAttr(chunks[i].attrib, "id", fallback_orig_id) = None
    THEN None
    ELSE Some([i \in 1..Len(chunks) |->
            LET orig_id == GetAttr(chunks[i].attrib, "id", fallback_orig_id)[1]
            IN  [chunks[i] EXCEPT !.attrib =
                    SetAttr(SetAttr(SetAttr(@, rootTag \o "_id", orig_id),
                                    "id", orig_id \o "_" \o ToString(i - 1)),
                            "position_in_text", chunk_pos(i - 1, Len(chunks)))]])

\* the values chunk(child, name, minmax, fallback_orig_id) can end with on tree t
ChunkResults(t, child_tag, minmax, fallback_orig_id) ==
    LET at == t.attrib[1]
    IN  {LET done == Annotate(t.tag[1], chunks, fallback_orig_id)
         IN  IF done = None
             THEN [op |-> "chunk", raised |-> "RuntimeWarning"]
             ELSE [op |-> "chunk", raised |-> "", tag |-> t.tag[1], attrib |-> at,
                   chunks |-> done[1]]
           : chunks \in UNION {ChunkLoop(t, IterTag(t, 1, child_tag), at, minmax,
                                         LoopVars(at, length), 0, <<>>)
                                  : length \in minmax[1]..minmax[2]}}

MinMaxes == {mm \in (0..MaxLen) \X (0..MaxLen) : mm[1] <= mm[2]}
Fallbacks == {None, Some("f")}

\* struct.chunk(child="s", name="chunk", minmax, fallback_orig_id)
Chunk ==
    /\ call = NoCall
    /\ \E minmax \in MinMaxes, fallback_orig_id \in Fallbacks :
          /\ call' = [op |-> "chunk", child |-> "s", minmax |-> minmax,
                      fallback |-> fallback_orig_id]
          /\ ret' \in ChunkResults(xml[1], "s", minmax, fallback_orig_id)
    /\ UNCHANGED <<xml, tagVars, iterVars, xmlVars, cmdVars>>

InitChunk ==
    /\ TagsIdle
    /\ IterIdle
    /\ XmlIdle
    /\ CmdIdle
    /\ \E at \in RootAttribs, items \in ItemSeqs : xml = Some(DocTree(at, items))
    /\ call = NoCall
    /\ ret = NoCall

NextChunk == Chunk

SpecChunk == InitChunk /\ [][NextChunk]_vars

\* chunk on documents whose <s> children hold markup of their own:
\*   "sh"  <s>w<hi>w</hi>w</s>  a child with an element inside
MaxNested == 3

NestedKinds == {"sb", "sh"}

AddNestedItem(t, kind) ==
    LET k == Len(t.tag) + 1
    IN  IF kind = "sh"
        THEN [AddNode(AddNode(t, 1, "s", NoAttrib), k, "hi", NoAttrib)
                 EXCEPT !.text[k] = <<Word(k)>>,
                        !.text[k + 1] = <<Word(k + 1)>>,
                        !.tail[k + 1] = <<Word(k)>>]
        ELSE AddItem(t, kind)

RECURSIVE AddNestedItems(_, _)
AddNestedItems(t, items) ==
    IF items = <<>> THEN t
    ELSE AddNestedItems(AddNestedItem(t, Head(items)), Tail(items))

InitNested ==
    /\ TagsIdle
    /\ IterIdle
    /\ XmlIdle
    /\ CmdIdle
    /\ \E at \in RootAttribs, items \in UNION {[1..n -> NestedKinds] : n \in 0..MaxNested} :
          xml = Some(AddNestedItems(AddNode(EmptyTree, 0, "doc", at), items))
    /\ call = NoCall
    /\ ret = NoCall

SpecNested == InitNested /\ [][NextChunk]_vars

(***************************************************************************)
(* Structure.group                                                         *)
(***************************************************************************)

\* the shapes of the parts of a document that is grouped:
\*   "tu"  <sp k="u"/>   "tv"  <sp k="v"/>   "tn"  <sp/> (no k)
\*   "pt"  <p><sp k="u"/></p>            a target one level down
\*   "tt"  <sp k="u"><sp k="v"/></sp>    a target inside a target
GroupKinds == {"tu", "tv", "tn", "pt", "tt"}

MaxGroupItems == 4

KAttr(v) == [k \in {"k"} |-> v]

AddGroupItem(t, kind) ==
    LET k == Len(t.tag) + 1
    IN  IF kind = "tu" THEN AddNode(t, 1, "sp", KAttr("u"))
        ELSE IF kind = "tv" THEN AddNode(t, 1, "sp", KAttr("v"))
        ELSE IF kind = "tn" THEN AddNode(t, 1, "sp", NoAttrib)
        ELSE IF kind = "pt" THEN AddNode(AddNode(t, 1, "p", NoAttrib), k, "sp", KAttr("u"))
        ELSE AddNode(AddNode(t, 1, "sp", KAttr("u")), k, "sp", KAttr("v"))

RECURSIVE AddGroupItems(_, _)
AddGroupItems(t, items) ==
    IF items = <<>> THEN t ELSE AddGroupItems(AddGroupItem(t, Head(items)), Tail(items))

GroupTree(at, items) == AddGroupItems(AddNode(EmptyTree, 0, "doc", at), items)

GroupItemSeqs == UNION {[1..n -> GroupKinds] : n \in 0..MaxGroupItems}

\* the sibling after node c under parent p, 0 when c is the last child
NextSibling(t, p, c) ==
    LET i == CHOOSE j \in 1..Len(t.kids[p]) : t.kids[p][j] = c
    IN  IF i < Len(t.kids[p]) THEN t.kids[p][i + 1] ELSE 0

\* lxml's depth-first step from c when c has no children: the next sibling,
\* else the next sibling of the nearest ancestor that has one; the walk
\* ends at the element the iterator was made on (top) and at a tree's root
RECURSIVE BackOff(_, _, _)
BackOff(t, top, c) ==
    LET p == ParentOf(t, c)
    IN  IF p = 0 THEN 0
        ELSE IF NextSibling(t, p, c) # 0 THEN NextSibling(t, p, c)
        ELSE IF p = top THEN 0
        ELSE BackOff(t, top, p)

\* lxml's depth-first step from c: children first
NextNode(t, top, c) ==
    IF t.kids[c] # <<>> THEN t.kids[c][1]
    ELSE IF c = top THEN 0
    ELSE BackOff(t, top, c)

\* ElementDepthFirstIterator._nextNodeMatchTag: the next element after c with
\* tag tg in the tree c is in now, 0 when there is none
RECURSIVE NextMatch(_, _, _, _)
NextMatch(t, top, c, tg) ==
    LET n == NextNode(t, top, c)
    IN  IF n = 0 THEN 0
        ELSE IF t.tag[n] = tg THEN n
        ELSE NextMatch(t, top, n, tg)

\* the first element self.xml.iter(tg) yields
FirstMatch(t, top, tg) == IF t.tag[top] = tg THEN top ELSE NextMatch(t, top, top, tg)

\* group.append(c): c leaves its parent, subtree and all, and becomes the
\* last child of g
MoveNode(t, g, c) ==
    LET without == [q \in 1..Len(t.kids) |-> SelectSeq(t.kids[q], LAMBDA x : x # c)]
    IN  [t EXCEPT !.kids = [without EXCEPT ![g] = Append(@, c)]]

\* tuple(target.get(a, None) for a in attr)
KeyTuple(t, c, attr) == [i \in 1..Len(attr) |-> GetAttr(t.attrib[c], attr[i], None)]

\* ",".join(map(str, t_val))
RECURSIVE JoinComma(_)
JoinComma(t_val) ==
    IF t_val = <<>> THEN ""
    ELSE IF Len(t_val) = 1 THEN StrOf(t_val[1])
    ELSE StrOf(t_val[1]) \o "," \o JoinComma(Tail(t_val))

\* fallback_root_id: False (the default), None, or a string
FalseId == [kind |-> "False", v |-> ""]
NoneId == [kind |-> "None", v |-> ""]
StrId(v) == [kind |-> "str", v |-> v]

\* the id of the group of a key tuple
GroupId(root_id, fallback_root_id, t_val) ==
    IF fallback_root_id # NoneId
    THEN root_id.v \o "/" \o JoinComma(t_val)
    ELSE JoinComma(t_val)

\* the for loop of group.  t holds the source tree (root 1) and the tree being
\* built (root r); cur is the element the iterator yields now; groups maps the
\* key tuples seen to their group nodes; seen is the set of loop states
\* passed, a state met again means the loop never ends
RECURSIVE GroupLoop(_, _, _, _, _, _, _, _, _)
GroupLoop(t, r, cur, groups, seen, target, attr, root_id, fallback_root_id) ==
    IF cur = 0 THEN [raised |-> "", tree |-> t, groups |-> groups]
    ELSE IF <<t.kids, cur>> \in seen THEN [raised |-> "never returns", tree |-> t, groups |-> groups]
    ELSE LET nxt == NextMatch(t, 1, cur, target)
             t_val == KeyTuple(t, cur, attr)
             id == GroupId(root_id, fallback_root_id, t_val)
             isNew == ~ \E i \in 1..Len(groups) : groups[i].key = t_val
             g == IF isNew THEN Len(t.tag) + 1
                  ELSE groups[CHOOSE i \in 1..Len(groups) : groups[i].key = t_val].node
             t1 == IF isNew
                   THEN AddNode(t, r, "group",
                                SetAttr(UpdateAttr(t.attrib[r], t.attrib[cur]), "id", id))
                   ELSE t
             groups1 == IF isNew THEN Append(groups, [key |-> t_val, node |-> g]) ELSE groups
         IN  GroupLoop(MoveNode(t1, g, cur), r, nxt, groups1, seen \cup {<<t.kids, cur>>},
                       target, attr, root_id, fallback_root_id)

\* group(target, attr, as_struct="group", fallback_root_id) on tree t
GroupResult(t, target, attr, fallback_root_id) ==
    LET r == Len(t.tag) + 1
        t0 == AddNode(t, 0, t.tag[1], t.attrib[1])
        root_id == IF "id" \in DOMAIN t.attrib[1] THEN StrId(t.attrib[1]["id"])
                   ELSE fallback_root_id
    IN  IF root_id = FalseId
        THEN [op |-> "group", raised |-> "RuntimeWarning", root |-> 0, tree |-> t, groups |-> <<>>]
        ELSE LET res == GroupLoop(t0, r, FirstMatch(t0, 1, target), <<>>, {},
                                  target, attr, root_id, fallback_root_id)
             IN  [op |-> "group", raised |-> res.raised, root |-> r, tree |-> res.tree,
                  groups |-> res.groups]

GroupFallbacks == {FalseId, NoneId, StrId("f")}

\* struct.group(target="sp", attr=("k",), as_struct="group", fallback_root_id);
\* the targets are moved out of self.xml
Group ==
    /\ call = NoCall
    /\ \E fallback_root_id \in GroupFallbacks :
          LET res == GroupResult(xml[1], "sp", <<"k">>, fallback_root_id)
          IN  /\ call' = [op |-> "group", target |-> "sp", attr |-> <<"k">>,
                          fallback |-> fallback_root_id, before |-> xml[1]]
              /\ ret' = res
              /\ xml' = Some(res.tree)
    /\ UNCHANGED <<tagVars, iterVars, xmlVars, cmdVars>>

InitGroup ==
    /\ TagsIdle
    /\ IterIdle
    /\ XmlIdle
    /\ CmdIdle
    /\ \E at \in RootAttribs, items \in GroupItemSeqs : xml = Some(GroupTree(at, items))
    /\ call = NoCall
    /\ ret = NoCall

NextGroup == Group

SpecGroup == InitGroup /\ [][NextGroup]_vars

\* group on documents whose targets differ in having the key attribute at
\* all:  "tN"  <sp k="None"/>  a target whose key value is the word None
MaxKeyItems == 3

KeyKinds == {"tu", "tn", "tN"}

AddKeyItem(t, kind) ==
    IF kind = "tN" THEN AddNode(t, 1, "sp", KAttr("None")) ELSE AddGroupItem(t, kind)

RECURSIVE AddKeyItems(_, _)
AddKeyItems(t, items) ==
    IF items = <<>> THEN t ELSE AddKeyItems(AddKeyItem(t, Head(items)), Tail(items))

InitGroupKeys ==
    /\ TagsIdle
    /\ IterIdle
    /\ XmlIdle
    /\ CmdIdle
    /\ \E at \in RootAttribs, items \in UNION {[1..n -> KeyKinds] : n \in 0..MaxKeyItems} :
          xml = Some(AddKeyItems(AddNode(EmptyTree, 0, "doc", at), items))
    /\ call = NoCall
    /\ ret = NoCall

SpecGroupKeys == InitGroupKeys /\ [][NextGroup]_vars

(***************************************************************************)
(* Structure.project                                                       *)
(***************************************************************************)

\* the order in which the documents of the model write their attributes;
\* iterating an attrib yields its keys in document order
AttrOrder == <<"id", "id_", "n">>

KeysOf(a) == SelectSeq(AttrOrder, LAMBDA k : k \in DOMAIN a)

\* a slip in the collision loop: the candidate is taken as it is
FreeKeyFirst(ckey, a) == ckey

\* while ckey in child.attrib: ckey += "_"
RECURSIVE FreeKey(_, _)
FreeKey(ckey, a) == IF ckey \in DOMAIN a THEN FreeKey(ckey \o "_", a) ELSE ckey

\* the inner loop of project over the root's keys still to visit, on the
\* attributes ca of one child
RECURSIVE ProjectKeys(_, _, _, _)
ProjectKeys(attrib, name, keys, ca) ==
    IF keys = <<>> THEN ca
    ELSE LET key == Head(keys)
             ckey == FreeKey(name \o "_" \o key, ca)
         IN  ProjectKeys(attrib, name, Tail(keys),
                         IF key \notin DOMAIN ca THEN SetAttr(ca, ckey, attrib[key]) ELSE ca)

\* project(child) on tree t of a Structure called name
ProjectTree(t, name, child_tag) ==
    [t EXCEPT !.attrib =
        [c \in 1..Len(t.attrib) |->
            IF t.tag[c] = child_tag
            THEN ProjectKeys(t.attrib[1], name, KeysOf(t.attrib[1]), t.attrib[c])
            ELSE t.attrib[c]]]

MaxProjects == 2
MaxTexts == 2

ProjRootAttribs == {NoAttrib,
                    [k \in {"id"} |-> "d"],
                    [k \in {"id", "n"} |-> IF k = "id" THEN "d" ELSE "v"],
                    [k \in {"id", "id_"} |-> IF k = "id" THEN "d" ELSE "e"]}

TextAttribs == {NoAttrib,
                [k \in {"id"} |-> "c"],
                [k \in {"doc_id"} |-> "x"],
                [k \in {"doc_id", "doc_id_"} |-> "x"]}

RECURSIVE AddTexts(_, _)
AddTexts(t, ats) ==
    IF ats = <<>> THEN t ELSE AddTexts(AddNode(t, 1, "text", Head(ats)), Tail(ats))

\* struct.project(child="text"); the Structure's name is its root's tag
Project ==
    /\ call.op = "none" \/ (call.op = "project" /\ call.n < MaxProjects)
    /\ call' = [op |-> "project", child |-> "text",
                n |-> IF call.op = "none" THEN 1 ELSE call.n + 1, before |-> xml[1]]
    /\ xml' = Some(ProjectTree(xml[1], xml[1].tag[1], "text"))
    /\ ret' = [op |-> "project", raised |-> ""]
    /\ UNCHANGED <<tagVars, iterVars, xmlVars, cmdVars>>

InitProject ==
    /\ TagsIdle
    /\ IterIdle
    /\ XmlIdle
    /\ CmdIdle
    /\ \E at \in ProjRootAttribs, ats \in UNION {[1..n -> TextAttribs] : n \in 0..MaxTexts} :
          xml = Some(AddTexts(AddNode(EmptyTree, 0, "doc", at), ats))
    /\ call = NoCall
    /\ ret = NoCall

NextProject == Project

SpecProject == InitProject /\ [][NextProject]_vars

(***************************************************************************)
(* chunk and group as the commands call them: once on a Structure          *)
(***************************************************************************)
InitRewrite ==
    /\ TagsIdle
    /\ IterIdle
    /\ XmlIdle
    /\ CmdIdle
    /\ \/ \E at \in RootAttribs, items \in ItemSeqs : xml = Some(DocTree(at, items))
       \/ \E at \in RootAttribs, items \in GroupItemSeqs : xml = Some(GroupTree(at, items))
    /\ call = NoCall
    /\ ret = NoCall

NextRewrite == Chunk \/ Group

SpecRewrite == InitRewrite /\ [][NextRewrite]_vars

(***************************************************************************)
(* Structure.xml: the lazy property, _xmlize and etree.fromstring          *)
(***************************************************************************)

\* "".join(chars)
RECURSIVE Join(_)
Join(chars) == IF chars = <<>> THEN "" ELSE Head(chars) \o Join(Tail(chars))

\* the parser's decoding of the references _xmlize wrote into character data
RECURSIVE XmlDecode(_)
XmlDecode(line) ==
    IF line = <<>> THEN <<>>
    ELSE IF StartsWith(line, AmpAmp, 1) THEN <<"&">> \o XmlDecode(SubSeq(line, 6, Len(line)))
    ELSE IF StartsWith(line, AmpLt, 1) THEN <<"<">> \o XmlDecode(SubSeq(line, 5, Len(line)))
    ELSE IF StartsWith(line, AmpGt, 1) THEN <<">">> \o XmlDecode(SubSeq(line, 5, Len(line)))
    ELSE <<Head(line)>> \o XmlDecode(Tail(line))

\* the first line at or after j that ends in a literal ">" (0: none)
RECURSIVE TagEnd(_, _)
TagEnd(text, j) ==
    IF j > Len(text) THEN 0
    ELSE IF text[j] # <<>> /\ text[j][Len(text[j])] = ">" THEN j
    ELSE TagEnd(text, j + 1)

\* the characters of lines i..j with "\n" between the lines
RECURSIVE JoinLines(_, _, _)
JoinLines(text, i, j) ==
    IF i = j THEN text[i] ELSE text[i] \o <<"\n">> \o JoinLines(text, i + 1, j)

\* the markup and character data of a text _xmlize made: a literal "<" is
\* only at the start of a line and opens a tag that runs to the next
\* literal ">", every other line is character data
RECURSIVE Units(_, _)
Units(text, i) ==
    IF i > Len(text) THEN <<>>
    ELSE IF text[i] # <<>> /\ text[i][1] = "<"
         THEN LET j == TagEnd(text, i)
              IN  IF j = 0 THEN <<[kind |-> "bad", body |-> text[i]]>>
                  ELSE LET all == JoinLines(text, i, j)
                       IN  <<[kind |-> "tag", body |-> SubSeq(all, 2, Len(all) - 1)]>>
                              \o Units(text, j + 1)
         ELSE <<[kind |-> "data", body |-> text[i]]>> \o Units(text, i + 1)

XmlSpace == {" ", "\t", "\n"}

AllSpace(chars) == \A q \in 1..Len(chars) : chars[q] \in XmlSpace

\* a start tag, empty-element tag or end tag is well formed: a name, then
\* only white space (the lines of the model cannot spell an attribute, which
\* takes = and quotes)
TagOK(body) ==
    IF body # <<>> /\ body[1] = "/"
    THEN /\ WordRun(body, 2) >= 1
         /\ AllSpace(SubSeq(body, 2 + WordRun(body, 2), Len(body)))
    ELSE /\ WordRun(body, 1) >= 1
         /\ LET rest == SubSeq(body, 1 + WordRun(body, 1), Len(body))
            IN  \/ AllSpace(rest)
                \/ rest[Len(rest)] = "/" /\ AllSpace(SubSeq(rest, 1, Len(rest) - 1))

\* etree.fromstring on the units from i on: t is the tree so far, stack the
\* open elements, last the child of the innermost open element closed last
RECURSIVE Build(_, _, _, _, _)
Build(units, i, t, stack, last) ==
    IF i > Len(units) THEN [ok |-> stack = <<>> /\ Len(t.tag) >= 1, tree |-> t]
    ELSE LET u == units[i]
             top == IF stack = <<>> THEN 0 ELSE stack[Len(stack)]
             k == Len(t.tag) + 1
         IN  IF u.kind = "bad" THEN [ok |-> FALSE, tree |-> t]
             ELSE IF u.kind = "data"
             THEN IF top = 0
                  THEN IF AllSpace(u.body) THEN Build(units, i + 1, t, stack, last)
                       ELSE [ok |-> FALSE, tree |-> t]
                  ELSE IF last = 0
                       THEN Build(units, i + 1,
                                  [t EXCEPT !.text[top] = Append(@, Join(XmlDecode(u.body)))],
                                  stack, last)
                       ELSE Build(units, i + 1,
                                  [t EXCEPT !.tail[last] = Append(@, Join(XmlDecode(u.body)))],
                                  stack, last)
             ELSE IF ~ TagOK(u.body) THEN [ok |-> FALSE, tree |-> t]
             ELSE IF u.body[1] = "/"
             THEN IF top # 0 /\ t.tag[top] = Join(NameAt(u.body, 2))
                  THEN Build(units, i + 1, t, SubSeq(stack, 1, Len(stack) - 1), top)
                  ELSE [ok |-> FALSE, tree |-> t]
             ELSE IF top = 0 /\ Len(t.tag) >= 1 THEN [ok |-> FALSE, tree |-> t]
             ELSE IF u.body[Len(u.body)] = "/"
             THEN Build(units, i + 1, AddNode(t, top, Join(NameAt(u.body, 1)), NoAttrib),
                        stack, k)
             ELSE Build(units, i + 1, AddNode(t, top, Join(NameAt(u.body, 1)), NoAttrib),
                        Append(stack, k), 0)

\* etree.fromstring(xml): ok is FALSE for an XMLSyntaxError
FromString(text) == Build(Units(text, 1), 1, EmptyTree, <<>>, 0)

\* a slip in the property: it is an ordinary property, computed at every read
CachedNever(cache) == FALSE

\* @lazy: the value is in the instance after the first read that returned
Cached(cache) == cache # None

\* bound of the reads of one Structure's xml
MaxAccess == 3

\* one read of struct.xml
AccessXml ==
    /\ accesses < MaxAccess
    /\ accesses' = accesses + 1
    /\ call' = [op |-> "xml"]
    /\ IF Cached(xml)
       THEN /\ ret' = [op |-> "xml", raised |-> "", tree |-> xml[1], file |-> 0]
            /\ UNCHANGED <<xml, vert, runs, dump>>
       ELSE LET text == Xmlize(self.raw, self.structs)
                parsed == FromString(text)
            IN  /\ vert' = text
                /\ runs' = runs + 1
                /\ IF parsed.ok
                   THEN /\ xml' = Some(parsed.tree)
                        /\ ret' = [op |-> "xml", raised |-> "", tree |-> parsed.tree, file |-> 0]
                        /\ dump' = dump
                   ELSE /\ dump' = Append(dump, text)
                        /\ ret' = [op |-> "xml", raised |-> "Exception", tree |-> EmptyTree,
                                   file |-> Len(dump) + 1]
                        /\ xml' = xml
    /\ UNCHANGED <<self, tagVars, iterVars, cmdVars>>

\* bound of the raw text of a Structure
MaxRaw == 3

EscOpenA == <<"&", "l", "t", ";", "a", "&", "g", "t", ";">>

\* a tag-shaped line that lacks its ">"
HalfA == <<"<", "a">>

XmlLines == {OpenA, CloseA, OpenAB, CloseAB, VoidB, Token, TabTok, EscOpenA, OpenAttr, HalfA}

ValidSets == SUBSET {<<"a">>, <<"b">>}

InitXml ==
    /\ TagsIdle
    /\ IterIdle
    /\ CmdIdle
    /\ \E raw_vert \in UNION {[1..n -> XmlLines] : n \in 1..MaxRaw}, valid \in ValidSets :
          self = Structure(raw_vert, valid)
    /\ xml = None
    /\ call = NoCall
    /\ ret = NoCall
    /\ vert = <<>>
    /\ accesses = 0
    /\ runs = 0
    /\ dump = <<>>

NextXml == AccessXml

SpecXml == InitXml /\ [][NextXml]_vars

(***************************************************************************)
(* vrt unescape                                                            *)
(***************************************************************************)

\* the lines a file object iterates over, each without its "\n"; chars is
\* what is left of the file, cur the line being read
RECURSIVE SplitLines(_, _)
SplitLines(chars, cur) ==
    IF chars = <<>> THEN (IF cur = <<>> THEN <<>> ELSE <<cur>>)
    ELSE IF Head(chars) = "\n" THEN <<cur>> \o SplitLines(Tail(chars), <<>>)
    ELSE SplitLines(Tail(chars), Append(cur, Head(chars)))

\* a slip in the loop condition: the loop body is never entered
KeepDecodingNever(esc, line) == FALSE

\* while esc != line
KeepDecoding(esc, line) == esc # line

\* for line in vertical: line = line.strip() + "\n"; esc = html.unescape(line)
UnescapeRead ==
    /\ cmd.op = "unescape" /\ cmd.pc = "for"
    /\ vert_file # <<>>
    /\ LET line == StripLine(Head(vert_file))
       IN  cmd' = [cmd EXCEPT !.line = line, !.esc = UnescapeLine(line),
                              !.pc = IF cmd.no_recursive THEN "yield" ELSE "while"]
    /\ vert_file' = Tail(vert_file)
    /\ UNCHANGED <<emitted, input, struct, structs, buffer, yielded, gen,
                   tagVars, structVars, xmlVars>>

\* one test of the while loop and, when it holds, one run of its body:
\* esc, line = html.unescape(esc), esc
UnescapeWhile ==
    /\ cmd.op = "unescape" /\ cmd.pc = "while"
    /\ IF KeepDecoding(cmd.esc, cmd.line)
       THEN cmd' = [cmd EXCEPT !.esc = UnescapeLine(cmd.esc), !.line = cmd.esc]
       ELSE cmd' = [cmd EXCEPT !.pc = "yield"]
    /\ UNCHANGED <<emitted, iterVars, tagVars, structVars, xmlVars>>

\* yield esc
UnescapeYield ==
    /\ cmd.op = "unescape" /\ cmd.pc = "yield"
    /\ emitted' = Append(emitted, cmd.esc)
    /\ cmd' = [cmd EXCEPT !.pc = "for"]
    /\ UNCHANGED <<iterVars, tagVars, structVars, xmlVars>>

\* the for loop finds the file exhausted
UnescapeEnd ==
    /\ cmd.op = "unescape" /\ cmd.pc = "for"
    /\ vert_file = <<>>
    /\ cmd' = [cmd EXCEPT !.pc = "done"]
    /\ UNCHANGED <<emitted, iterVars, tagVars, structVars, xmlVars>>

\* bound of the pieces an input of unescape is made of
MaxPieces == 4

UnescapePieces == {<<"&">>, <<"a", "m", "p", ";">>, <<"l", "t", ";">>, <<"l", "t">>,
                   <<"x">>, <<" ">>, <<"\n">>}

RECURSIVE Concat(_)
Concat(pieces) == IF pieces = <<>> THEN <<>> ELSE Head(pieces) \o Concat(Tail(pieces))

InitUnescape ==
    /\ TagsIdle
    /\ StructIdle
    /\ XmlIdle
    /\ \E pieces \in UNION {[1..n -> UnescapePieces] : n \in 0..MaxPieces} :
          /\ input = SplitLines(Concat(pieces), <<>>)
          /\ vert_file = input
    /\ struct = None /\ structs = None /\ buffer = <<>> /\ yielded = <<>> /\ gen = "none"
    /\ \E no_recursive \in BOOLEAN :
          cmd = [op |-> "unescape", no_recursive |-> no_recursive, pc |-> "for",
                 line |-> <<>>, esc |-> <<>>]
    /\ emitted = <<>>

NextUnescape == UnescapeRead \/ UnescapeWhile \/ UnescapeYield \/ UnescapeEnd

\* the command runs on: nothing but the input stream can block it
SpecUnescape == InitUnescape /\ [][NextUnescape]_vars /\ WF_vars(NextUnescape)

(***************************************************************************)
(* vrt wrap and vrt filter: consumers of iterstruct(vertical, struct=...)  *)
(***************************************************************************)
OpenKu   == <<"<", "a", " ", "k", "=", "\"", "u", "\"", ">">>
OpenKvJu == <<"<", "a", " ", "k", "=", "\"", "v", "\"", " ", "j", "=", "\"", "u", "\"", ">">>
OpenKuKv == <<"<", "a", " ", "k", "=", "\"", "u", "\"", " ", "k", "=", "\"", "v", "\"", ">">>
OpenKuvJu == <<"<", "a", " ", "k", "=", "\"", "u", ",", "v", "\"", " ", "j", "=", "\"", "u", "\"", ">">>
OpenKuJvu == <<"<", "a", " ", "k", "=", "\"", "u", "\"", " ", "j", "=", "\"", "v", ",", "u", "\"", ">">>

\* the for loop of a command asks the generator for its next Structure: the
\* generator runs from where it stood and is suspended again at its yield
Resume ==
    /\ cmd.pc = "for"
    /\ Len(yielded) = cmd.i
    /\ IterStart \/ IterLine \/ IterEnd

\* ",".join(values)
RECURSIVE JoinValues(_)
JoinValues(values) ==
    IF values = <<>> THEN <<>>
    ELSE IF Len(values) = 1 THEN values[1]
    ELSE values[1] \o <<",">> \o JoinValues(Tail(values))

\* the body of wrap's for loop for the Structure the generator yielded
WrapBody ==
    /\ cmd.op = "wrap" /\ cmd.pc = "for"
    /\ Len(yielded) > cmd.i
    /\ LET s == yielded[cmd.i + 1]
           new_attr == JoinValues([n \in 1..Len(cmd.attr) |-> s.attr[cmd.attr[n]]])
           closing == IF cmd.last_attr # None THEN <<[kind |-> "close"]>> ELSE <<>>
           opening == <<[kind |-> "open", id |-> new_attr \o <<"_", ToString(cmd.i)>>]>>
       IN  IF \E n \in 1..Len(cmd.attr) : cmd.attr[n] \notin DOMAIN s.attr
           THEN /\ cmd' = [cmd EXCEPT !.pc = "RuntimeError"]
                /\ emitted' = emitted
           ELSE /\ emitted' = emitted
                                \o (IF Some(new_attr) # cmd.last_attr
                                    THEN closing \o opening ELSE <<>>)
                                \o <<[kind |-> "raw", raw |-> s.raw]>>
                /\ cmd' = [cmd EXCEPT !.last_attr = Some(new_attr), !.i = cmd.i + 1]
    /\ UNCHANGED <<iterVars, tagVars, structVars, xmlVars>>

\* the generator is exhausted: the statement after wrap's for loop
WrapEnd ==
    /\ cmd.op = "wrap" /\ cmd.pc = "for"
    /\ gen = "exhausted" /\ Len(yielded) = cmd.i
    /\ emitted' = Append(emitted, [kind |-> "close"])
    /\ cmd' = [cmd EXCEPT !.pc = "done"]
    /\ UNCHANGED <<iterVars, tagVars, structVars, xmlVars>>

WrapLines == {OpenKu, OpenKvJu, OpenKuvJu, OpenKuJvu, OpenA, CloseA, Token}

WrapAttrs == {<<<<"k">>>>, <<<<"k">>, <<"j">>>>}

InitWrap ==
    /\ TagsInit
    /\ added = {}
    /\ StructIdle
    /\ XmlIdle
    /\ input \in UNION {[1..n -> WrapLines] : n \in 0..MaxInput}
    /\ vert_file = input
    /\ struct = Some(<<"a">>)
    /\ structs = None
    /\ buffer = <<>>
    /\ yielded = <<>>
    /\ gen = "start"
    /\ \E attr \in WrapAttrs :
          cmd = [op |-> "wrap", attr |-> attr, pc |-> "for", i |-> 0, last_attr |-> None]
    /\ emitted = <<>>

NextWrap == (cmd.op = "wrap" /\ Resume) \/ WrapBody \/ WrapEnd

SpecWrap == InitWrap /\ [][NextWrap]_vars

\* set(struct.attr.items())
Items(attr) == {<<key, attr[key]>> : key \in DOMAIN attr}

\* a slip in the choice of the set method: "any" tests like "all"
SatisfiesAll(struct_attr, attr, match) == attr \subseteq struct_attr

\* getattr(struct_attr, match)(attr), taken as a truth value, with match
\* "issuperset" for all, "intersection" for any, "isdisjoint" for none
Satisfies(struct_attr, attr, match) ==
    IF match = "all" THEN attr \subseteq struct_attr
    ELSE IF match = "any" THEN struct_attr \cap attr # {}
    ELSE struct_attr \cap attr = {}

\* the body of filter's for loop for the Structure the generator yielded
FilterBody ==
    /\ cmd.op = "filter" /\ cmd.pc = "for"
    /\ Len(yielded) > cmd.i
    /\ LET s == yielded[cmd.i + 1]
       IN  emitted' = IF Satisfies(Items(s.attr), cmd.attr, cmd.match)
                      THEN Append(emitted, s.raw) ELSE emitted
    /\ cmd' = [cmd EXCEPT !.i = cmd.i + 1]
    /\ UNCHANGED <<iterVars, tagVars, structVars, xmlVars>>

\* the generator is exhausted: filter ends
FilterEnd ==
    /\ cmd.op = "filter" /\ cmd.pc = "for"
    /\ gen = "exhausted" /\ Len(yielded) = cmd.i
    /\ cmd' = [cmd EXCEPT !.pc = "done"]
    /\ UNCHANGED <<emitted, iterVars, tagVars, structVars, xmlVars>>

FilterLines == {OpenKu, OpenKvJu, OpenKuKv, CloseA, Token}

Ku == <<<<"k">>, <<"u">>>>
Kv == <<<<"k">>, <<"v">>>>
Ju == <<<<"j">>, <<"u">>>>

FilterAttrs == {{Ku}, {Ku, Ju}, {Kv, Ju}}

InitFilter ==
    /\ TagsInit
    /\ added = {}
    /\ StructIdle
    /\ XmlIdle
    /\ input \in UNION {[1..n -> FilterLines] : n \in 0..MaxInput}
    /\ vert_file = input
    /\ struct = Some(<<"a">>)
    /\ structs = None
    /\ buffer = <<>>
    /\ yielded = <<>>
    /\ gen = "start"
    /\ \E attr \in FilterAttrs, match \in {"all", "any", "none"} :
          cmd = [op |-> "filter", attr |-> attr, match |-> match, pc |-> "for", i |-> 0]
    /\ emitted = <<>>

NextFilter == (cmd.op = "filter" /\ Resume) \/ FilterBody \/ FilterEnd

SpecFilter == InitFilter /\ [][NextFilter]_vars

(***************************************************************************)
(* C1: after any sequence of add(line) calls, resolve() is exactly the     *)
(* names seen in an opening-tag line and in a closing-tag line, together   *)
(* with the names seen in a self-closing-tag line; a name seen only in     *)
(* opening lines or only in closing lines is not in it; and every line     *)
(* falls in at most one of the three classes.                              *)
(***************************************************************************)
SeenOpening == {NameAt(l, 2) : l \in {k \in added : StartMatch(k)}}
SeenClosing == {NameAt(l, 3) : l \in {k \in added : EndMatch(k)}}
SeenVoid    == {NameAt(l, 2) : l \in {k \in added : VoidMatch(k)}}

C1_ResolveBalancedOrVoid ==
    /\ resolve = (SeenOpening \cap SeenClosing) \cup SeenVoid
    /\ \A n \in resolve : n \in SeenVoid \/ (n \in SeenOpening /\ n \in SeenClosing)
    /\ \A l \in added :
          Cardinality({c \in {1, 2, 3} :
              \/ c = 1 /\ StartMatch(l)
              \/ c = 2 /\ EndMatch(l)
              \/ c = 3 /\ VoidMatch(l)}) <= 1
    /\ stags = SeenOpening /\ etags = SeenClosing /\ vtags = SeenVoid

\* a name opened but never closed and a name both opened and closed were seen
C1_Witness ==
    /\ OpenAB \in added /\ CloseAB \notin added
    /\ OpenA \in added /\ CloseA \in added
    /\ VoidB \in added
    /\ resolve = {<<"a">>, <<"b">>}


\* the children of all chunks of a returned root, in order
ChunkKids(r) == Flatten([i \in 1..Len(r.chunks) |-> r.chunks[i].kids])

ChunkReturned == ret.op = "chunk" /\ ret.raised = ""

(***************************************************************************)
(* C3: chunk places every descendant matching child_tag, also one without  *)
(* text lines and one after the last completed chunk, as exactly one child *)
(* of one chunk, in document order, and the text of the chunks' children   *)
(* is the text of the original children.                                   *)
(***************************************************************************)
C3_EveryChildInOneChunk ==
    ChunkReturned =>
        /\ [i \in 1..Len(ChunkKids(ret)) |-> ChunkKids(ret)[i].src] = IterTag(xml[1], 1, "s")
        /\ Flatten([i \in 1..Len(ChunkKids(ret)) |-> TextLines(ChunkKids(ret)[i].text)])
             = Flatten([i \in 1..Len(IterTag(xml[1], 1, "s")) |->
                          TextLines(StringLines(xml[1], IterTag(xml[1], 1, "s")[i]))])

(***************************************************************************)
(* C6: position_in_text is "beginning" for the only chunk of one,          *)
(* "beginning", "end" for two chunks, and "beginning", "beginning",        *)
(* "middle", "middle", "end" for five chunks.                              *)
(***************************************************************************)
PositionsInText(r) == [i \in 1..Len(r.chunks) |-> r.chunks[i].attrib["position_in_text"]]

C6_PositionInText ==
    ChunkReturned =>
        /\ Len(ret.chunks) = 1 => PositionsInText(ret) = <<"beginning">>
        /\ Len(ret.chunks) = 2 => PositionsInText(ret) = <<"beginning", "end">>
        /\ Len(ret.chunks) = 5 =>
              PositionsInText(ret) = <<"beginning", "beginning", "middle", "middle", "end">>

(***************************************************************************)
(* C4: group returns a root whose groups hold every node matching          *)
(* target_tag exactly once, the groups in the order in which their key     *)
(* tuples first occur in the document, the targets of a group in their     *)
(* original order.                                                         *)
(***************************************************************************)
GroupReturned == ret.op = "group" /\ ret.raised = ""

\* the members of the groups of the returned root, group by group
GroupMembers(r) == Flatten([i \in 1..Len(r.tree.kids[r.root]) |->
                               r.tree.kids[r.tree.kids[r.root][i]]])

\* the position of node c in sequence sq
IndexIn(sq, c) == CHOOSE i \in 1..Len(sq) : sq[i] = c

\* sq without the elements that occurred before
RECURSIVE FirstOccurrences(_, _)
FirstOccurrences(sq, had) ==
    IF sq = <<>> THEN <<>>
    ELSE IF Head(sq) \in had THEN FirstOccurrences(Tail(sq), had)
    ELSE <<Head(sq)>> \o FirstOccurrences(Tail(sq), had \cup {Head(sq)})

C4_GroupKeepsEveryTarget ==
    GroupReturned =>
        LET targets == IterTag(call.before, 1, "sp")
            members == GroupMembers(ret)
            gs == ret.tree.kids[ret.root]
        IN  /\ Len(members) = Len(targets)
            /\ {members[i] : i \in 1..Len(members)} = {targets[i] : i \in 1..Len(targets)}
            /\ [i \in 1..Len(gs) |-> KeyTuple(call.before, ret.tree.kids[gs[i]][1], <<"k">>)]
                 = FirstOccurrences([i \in 1..Len(targets) |->
                                        KeyTuple(call.before, targets[i], <<"k">>)], {})
            /\ \A i \in 1..Len(gs) : \A a, b \in 1..Len(ret.tree.kids[gs[i]]) :
                   a < b => IndexIn(targets, ret.tree.kids[gs[i]][a])
                              < IndexIn(targets, ret.tree.kids[gs[i]][b])

RECURSIVE Unders(_)
Unders(n) == IF n = 0 THEN "" ELSE "_" \o Unders(n - 1)

\* the suffixes the collision loop can reach: a child starts with at most two
\* prefixed keys and a call adds at most two
Underscores == {Unders(n) : n \in 0..(2 * MaxProjects + 2)}

RECURSIVE SpansOf(_, _, _, _)
SpansOf(lines, tg, span, out) ==
    IF lines = <<>> THEN out
    ELSE LET line == StripLine(Head(lines))
         IN  IF span = <<>>
             THEN IF StartMatch(line) /\ NameAt(line, 2) = tg
                  THEN SpansOf(Tail(lines), tg, <<line>>, out)
                  ELSE SpansOf(Tail(lines), tg, <<>>, out)
             ELSE IF line = <<"<", "/">> \o tg \o <<">">>
                  THEN SpansOf(Tail(lines), tg, <<>>, Append(out, Append(span, line)))
                  ELSE SpansOf(Tail(lines), tg, Append(span, line), out)

C8_OneStructurePerSpan ==
    (gen = "exhausted" /\ struct = Some(<<"a">>)) =>
        [i \in 1..Len(yielded) |-> yielded[i].raw] = SpansOf(input, <<"a">>, <<>>, <<>>)

(***************************************************************************)
(* C9: without a boundary tag, iterstruct yields exactly one Structure,    *)
(* the whole input between <root> and </root>, and then ends normally,     *)
(* with no error raised to the consumer, whether the valid tags are        *)
(* inferred or supplied; a supplied set then contains "root".              *)
(***************************************************************************)
NonBlank(text) == SelectSeq([i \in 1..Len(text) |-> StripLine(text[i])], LAMBDA l : l # <<>>)

C9_WholeInputThenExhausted ==
    (gen \in {"exhausted", "RuntimeError"} /\ struct \in {None, Some(RootName)}) =>
        /\ gen = "exhausted"
        /\ Len(yielded) = 1
        /\ NonBlank(yielded[1].raw) = <<OpenRoot>> \o NonBlank(input) \o <<CloseRoot>>
        /\ Truthy(structs) => RootName \in yielded[1].structs

(***************************************************************************)
(* C2: _xmlize restores to literal <...> markup only lines whose tag name  *)
(* is a member of the Structure's valid-tag set, also when the set is      *)
(* empty or holds a proper prefix of another tag name of the block; every  *)
(* other tag-like line stays escaped.                                      *)
(***************************************************************************)
C2_OnlyValidTagsRestored ==
    \A i \in 1..Len(vert) :
        (vert[i] # <<>> /\ vert[i][1] = "<") =>
            NameAt(vert[i], IF Len(vert[i]) >= 2 /\ vert[i][2] = "/" THEN 3 ELSE 2)
                \in self.structs

(***************************************************************************)
(* C10: Structure.xml is computed at the first read and memoized: after a  *)
(* read that succeeded, every later read returns the same tree without     *)
(* running _xmlize or the parser again and the tree does not change; a     *)
(* first read whose parse fails raises an error naming a dump file that    *)
(* holds exactly the text _xmlize produced, and stores nothing.            *)
(***************************************************************************)
C10_XmlMemoized ==
    [][/\ xml # None =>
            /\ xml' = xml
            /\ runs' = runs
            /\ dump' = dump
            /\ ret'.raised = "" /\ ret'.tree = xml[1]
       /\ (xml = None /\ ret'.raised = "") =>
            /\ xml' = Some(ret'.tree)
            /\ runs' = runs + 1
            /\ dump' = dump
            /\ FromString(Xmlize(self.raw, self.structs)).ok
       /\ ret'.raised = "Exception" =>
            /\ xml = None /\ xml' = None
            /\ ret'.file = Len(dump')
            /\ dump' = Append(dump, Xmlize(self.raw, self.structs))
            /\ ~ FromString(Xmlize(self.raw, self.structs)).ok]_vars

\* a tree was built once and read again
C10_Witness ==
    /\ accesses >= 3
    /\ runs = 1
    /\ xml # None
    /\ Len(xml[1].tag) >= 2

(***************************************************************************)
(* C11: unescape emits one line for each input line, in order: with        *)
(* --no-recursive the stripped line after exactly one decoding pass, by    *)
(* default the stripped line decoded again and again up to a fixed point   *)
(* (one more pass changes nothing); and the command always comes to its    *)
(* end, so the decoding loop terminates for every line.                    *)
(***************************************************************************)
RECURSIVE Passes(_, _)
Passes(line, n) == IF n = 0 THEN line ELSE UnescapeLine(Passes(line, n - 1))

UnescapeEmitsDecoded ==
    /\ Len(emitted) <= Len(input)
    /\ cmd.pc = "done" => Len(emitted) = Len(input)
    /\ \A i \in 1..Len(emitted) :
          LET line == StripLine(input[i])
          IN  IF cmd.no_recursive THEN emitted[i] = Passes(line, 1)
              ELSE /\ UnescapeLine(emitted[i]) = emitted[i]
                   /\ \E n \in 0..Len(line) : emitted[i] = Passes(line, n)

C11_UnescapeFixedPoint ==
    /\ [](cmd.op = "unescape" => UnescapeEmitsDecoded)
    /\ <>(cmd.op = "unescape" /\ cmd.pc = "done")

\* a line that took two passes was emitted by the recursive command
C11_Witness ==
    /\ cmd.op = "unescape" /\ cmd.pc = "done" /\ ~ cmd.no_recursive
    /\ \E i \in 1..Len(emitted) :
          /\ input[i] # StripLine(input[i])
          /\ emitted[i] # Passes(StripLine(input[i]), 1)
          /\ emitted[i] = Passes(StripLine(input[i]), 2)

(***************************************************************************)
(* C12: for every input, also one without a target structure, what wrap    *)
(* has emitted when it ends is well nested: every opening wrapper tag is   *)
(* closed, no closing tag comes without an open wrapper, every raw text is *)
(* inside a wrapper; the raw texts are those of the target structures,     *)
(* once each and in input order; and a wrapper is opened before a          *)
(* structure exactly when it is the first or its tuple of attr values      *)
(* differs from that of the structure before it.                           *)
(***************************************************************************)
CountKind(items, kind, n) == Cardinality({m \in 1..n : items[m].kind = kind})

Depth(items, n) == CountKind(items, "open", n) - CountKind(items, "close", n)

WellNested(items) ==
    /\ \A n \in 1..Len(items) :
          /\ Depth(items, n) \in {0, 1}
          /\ items[n].kind = "raw" => Depth(items, n) = 1
          /\ items[n].kind = "open" => Depth(items, n - 1) = 0
    /\ Depth(items, Len(items)) = 0

\* where the i-th raw text is among the items
PosRaw(items, i) ==
    CHOOSE n \in 1..Len(items) : items[n].kind = "raw" /\ CountKind(items, "raw", n) = i

AttrTuple(s, attr) == [n \in 1..Len(attr) |-> s.attr[attr[n]]]

C12_WrapWellNested ==
    (cmd.op = "wrap" /\ cmd.pc = "done") =>
        /\ WellNested(emitted)
        /\ CountKind(emitted, "raw", Len(emitted)) = Len(yielded)
        /\ \A i \in 1..Len(yielded) :
              LET n == PosRaw(emitted, i)
              IN  /\ emitted[n].raw = yielded[i].raw
                  /\ emitted[n - 1].kind = "open"
                        <=> (i = 1 \/ AttrTuple(yielded[i], cmd.attr)
                                         # AttrTuple(yielded[i - 1], cmd.attr))

(***************************************************************************)
(* C13: filter emits, in input order and unchanged, the raw text of        *)
(* exactly those blocks whose attribute pairs meet the condition for the   *)
(* given pairs: all of them on the block for match=all, at least one for   *)
(* match=any, not one for match=none.                                      *)
(***************************************************************************)
\* the pair is on the opening line of the block: key="value" is written
\* there and no later key="..." for the same key follows it
OnBlock(s, pair) == pair[1] \in DOMAIN s.attr /\ s.attr[pair[1]] = pair[2]

Chosen(s) ==
    LET present == {pair \in cmd.attr : OnBlock(s, pair)}
    IN  IF cmd.match = "all" THEN present = cmd.attr
        ELSE IF cmd.match = "any" THEN present # {}
        ELSE present = {}

RECURSIVE RawsOfChosen(_)
RawsOfChosen(ss) ==
    IF ss = <<>> THEN <<>>
    ELSE (IF Chosen(Head(ss)) THEN <<Head(ss).raw>> ELSE <<>>) \o RawsOfChosen(Tail(ss))

C13_FilterEmitsMatching ==
    cmd.op = "filter" =>
        /\ emitted = RawsOfChosen(SubSeq(yielded, 1, cmd.i))
        /\ cmd.pc = "done" => cmd.i = Len(yielded)

\* filter ended having kept one block and dropped another, under match=any
\* with two pairs given
C13_Witness ==
    /\ cmd.op = "filter" /\ cmd.pc = "done" /\ cmd.match = "any"
    /\ Cardinality(cmd.attr) = 2
    /\ Len(yielded) = 2
    /\ Len(emitted) = 1

(***************************************************************************)
(* C14: when the valid tags are inferred, the valid-tag set of every       *)
(* Structure iterstruct yields is what a fresh inferencer resolves from    *)
(* the lines of that block alone: nothing seen in an earlier block is in   *)
(* it unless the block itself has it balanced or self-closing.             *)
(***************************************************************************)
\* a fresh ValidTags fed the lines from position i on
RECURSIVE FreshSets(_, _, _)
FreshSets(lines, i, sets) ==
    IF i > Len(lines) THEN sets
    ELSE FreshSets(lines, i + 1, AddSets(sets.s, sets.e, sets.v, lines[i]))

FreshResolve(lines) ==
    LET sets == FreshSets(lines, 1, [s |-> {}, e |-> {}, v |-> {}])
    IN  ResolveSets(sets.s, sets.e, sets.v)

C14_FreshTagsPerBlock ==
    (gen \in {"loop", "exhausted"} /\ ~ Truthy(structs)) =>
        \A i \in 1..Len(yielded) : yielded[i].structs = FreshResolve(yielded[i].raw)

(***************************************************************************)
(* C15 as stated: a chunk is appended to the new root at the first child   *)
(* after which positions, the text lines of the children added to it,      *)
(* reaches its drawn target, which lies in [length_min, length_max]; so    *)
(* every chunk but possibly the last has at least target lines, every      *)
(* chunk has fewer than target lines before its last child, and the chunk  *)
(* in progress after the last child is appended exactly when its           *)
(* positions > 0.                                                          *)
(***************************************************************************)
\* the text lines of the first n children of a chunk
RECURSIVE LinesOf(_, _)
LinesOf(chunk, n) ==
    IF n = 0 THEN 0
    ELSE LinesOf(chunk, n - 1)
            + Cardinality({q \in 1..Len(chunk.kids[n].text) : chunk.kids[n].text[q] # ""})

\* the number of children in the first n chunks
RECURSIVE KidsIn(_, _)
KidsIn(chunks, n) == IF n = 0 THEN 0 ELSE KidsIn(chunks, n - 1) + Len(chunks[n].kids)

\* what the loop guarantees whatever the targets drawn: the chunks hold a
\* prefix of the matching children, in order; what is left over is a run of
\* children without text lines after a chunk that reached its target
ChunkedAtTarget ==
    LET all == IterTag(xml[1], 1, "s")
        chunks == ret.chunks
        placed == KidsIn(chunks, Len(chunks))
    IN  /\ placed <= Len(all)
        /\ \A i \in 1..Len(chunks) :
              LET chunk == chunks[i]
                  n == Len(chunk.kids)
                  lines == LinesOf(chunk, n)
              IN  /\ \A m \in 1..n : chunk.kids[m].src = all[KidsIn(chunks, i - 1) + m]
                  /\ chunk.chunk_length \in call.minmax[1]..call.minmax[2]
                  /\ n >= 1
                  /\ \A m \in 1..(n - 1) : LinesOf(chunk, m) < chunk.chunk_length
                  /\ i < Len(chunks) => lines >= chunk.chunk_length
                  /\ lines < chunk.chunk_length => (lines > 0 /\ placed = Len(all))
        /\ \A i \in (placed + 1)..Len(all) : TextLines(StringLines(xml[1], all[i])) = <<>>

C15_ChunkBounds ==
    ChunkReturned =>
        /\ ChunkedAtTarget
        /\ \A i \in 1..Len(ret.chunks) :
              LET chunk == ret.chunks[i]
              IN  LinesOf(chunk, Len(chunk.kids) - 1) < chunk.chunk_length

(***************************************************************************)
(* C15 as amended: the same, but a chunk has fewer than target lines       *)
(* before its last child only when its target is at least 1; with a target *)
(* of 0 (length_min = 0) positions >= target holds from the start and the  *)
(* chunk is appended after its first child, whatever that child holds.     *)
(***************************************************************************)
C15_ChunkBoundsPositiveTarget ==
    ChunkReturned =>
        /\ ChunkedAtTarget
        /\ \A i \in 1..Len(ret.chunks) :
              LET chunk == ret.chunks[i]
              IN  IF chunk.chunk_length >= 1
                  THEN LinesOf(chunk, Len(chunk.kids) - 1) < chunk.chunk_length
                  ELSE Len(chunk.kids) = 1

\* a first chunk of two children that reached its target, then a last chunk
\* that did not
C15_Witness ==
    /\ ChunkReturned
    /\ Len(ret.chunks) = 2
    /\ Len(ret.chunks[1].kids) = 2
    /\ LinesOf(ret.chunks[1], 2) >= ret.chunks[1].chunk_length
    /\ LinesOf(ret.chunks[2], Len(ret.chunks[2].kids)) < ret.chunks[2].chunk_length

(***************************************************************************)
(* C16: every child chunk copies into a chunk has the tag and the          *)
(* attributes of the original child and as many element children as the    *)
(* original has, so the elements nested in the original are under the copy *)
(* too; and chunk leaves the source tree unchanged.                        *)
(***************************************************************************)
C16_CopyKeepsNestedContent ==
    [][(ret'.op = "chunk" /\ ret'.raised = "") =>
          /\ xml' = xml
          /\ \A i \in 1..Len(ChunkKids(ret')) :
                LET copy == ChunkKids(ret')[i]
                IN  /\ copy.tag = xml[1].tag[copy.src]
                    /\ copy.attrib = xml[1].attrib[copy.src]
                    /\ Len(copy.kids) = Len(xml[1].kids[copy.src])]_vars

(***************************************************************************)
(* C17: every span _xmlize restores to literal markup is one whole line of *)
(* the block: a line of the result that holds a literal "<" or ">" starts  *)
(* with the "<", ends with the ">", holds no other literal bracket and no  *)
(* tab.  So a line with a tab, and a tag-shaped line that is closed by a   *)
(* ">" only at the end of a later line, are never turned into markup.      *)
(***************************************************************************)
HasChar(line, chars) == \E q \in 1..Len(line) : line[q] \in chars

C17_RestoredSpanIsOneLine ==
    \A i \in 1..Len(vert) :
        HasChar(vert[i], {"<", ">"}) =>
            /\ vert[i][1] = "<"
            /\ vert[i][Len(vert[i])] = ">"
            /\ ~ HasChar(SubSeq(vert[i], 2, Len(vert[i]) - 1), {"<", ">", "\t"})

(***************************************************************************)
(* C18: within one group pass the groups of two different key tuples have  *)
(* different id attributes, also when the tuples differ only in an absent  *)
(* attribute against the value "None".                                     *)
(***************************************************************************)
C18_DistinctGroupIds ==
    (ret.op = "group" /\ ret.raised = "") =>
        \A i, j \in 1..Len(ret.groups) :
            ret.groups[i].key # ret.groups[j].key =>
                ret.tree.attrib[ret.groups[i].node]["id"]
                    # ret.tree.attrib[ret.groups[j].node]["id"]

=============================================================================
